---------------------------- MODULE Spec2Model ----------------------------
(***************************************************************************)
(* Model of the tsv-graph tools: tools/graph_validate.py (validate_graph)  *)
(* and tools/graph_search.py (load_graph, load_embeddings,                 *)
(* cosine_similarity, search).                                             *)
(*                                                                         *)
(* Text values are sequences of one-character strings, so that float(),    *)
(* re.match(), str.lower(), the `in` substring test and json.loads() are   *)
(* computed character by character.  Python's None (the value              *)
(* csv.DictReader gives to the cells a short row lacks) is the one-element *)
(* sequence None, which no text equals.  A Python float is an exact        *)
(* fraction [num, den] in lowest terms; den = 0 encodes nan (num = 0) and  *)
(* the infinities (num = 1, -1).                                           *)
(***************************************************************************)
EXTENDS Integers, Sequences, FiniteSets, TLC

(***************************************************************************)
(* Bounds of the explored inputs.                                          *)
(***************************************************************************)
MaxRows == 3

MaxGraphRows == 2

MaxSemRows == 2

MaxTopK == 2

(***************************************************************************)
(* Python values.                                                          *)
(***************************************************************************)
None == <<"None">>

Truthy(v) == v # None /\ v # <<>>

Digits == {"0", "1", "2", "3", "4", "5", "6", "7", "8", "9"}

DigitVal(ch) ==
  CASE ch = "0" -> 0 [] ch = "1" -> 1 [] ch = "2" -> 2 [] ch = "3" -> 3
    [] ch = "4" -> 4 [] ch = "5" -> 5 [] ch = "6" -> 6 [] ch = "7" -> 7
    [] ch = "8" -> 8 [] ch = "9" -> 9

RECURSIVE DigitsVal(_)
DigitsVal(s) ==
  IF s = <<>> THEN 0
  ELSE 10 * DigitsVal(SubSeq(s, 1, Len(s) - 1)) + DigitVal(s[Len(s)])

AllDigits(s) == \A i \in 1..Len(s) : s[i] \in Digits

RECURSIVE Pow10(_)
Pow10(n) == IF n = 0 THEN 1 ELSE 10 * Pow10(n - 1)

Abs(n) == IF n < 0 THEN -n ELSE n

RECURSIVE Gcd(_, _)
Gcd(a, b) == IF b = 0 THEN a ELSE Gcd(b, a % b)

\* the float num/den (den > 0), in lowest terms
Float(num, den) ==
  LET g == Gcd(Abs(num), den)
  IN  [num |-> num \div g, den |-> den \div g]

NaN == [num |-> 0, den |-> 0]

IsNaN(c) == c.den = 0 /\ c.num = 0

\* a <= b on floats: False whenever an operand is nan
FloatLE(a, b) ==
  /\ ~IsNaN(a)
  /\ ~IsNaN(b)
  /\ IF a.den = 0 THEN a.num < 0 \/ (b.den = 0 /\ b.num > 0)
     ELSE IF b.den = 0 THEN b.num > 0
     ELSE a.num * b.den <= b.num * a.den

FloatLT(a, b) == FloatLE(a, b) /\ ~FloatLE(b, a)

Index(s, ch) ==
  IF \E i \in 1..Len(s) : s[i] = ch
  THEN CHOOSE i \in 1..Len(s) : s[i] = ch /\ \A j \in 1..(i - 1) : s[j] # ch
  ELSE 0

\* str.lower() on the letters of the model's alphabet
LowerChar(ch) ==
  CASE ch = "A" -> "a" [] ch = "B" -> "b" [] ch = "C" -> "c"
    [] ch = "I" -> "i" [] ch = "N" -> "n" [] ch = "F" -> "f"
    [] OTHER -> ch

Lower(s) == [i \in 1..Len(s) |-> LowerChar(s[i])]

\* Python's `needle in hay` on strings
Contains(hay, needle) ==
  \E i \in 0..(Len(hay) - Len(needle)) :
    SubSeq(hay, i + 1, i + Len(needle)) = needle

(***************************************************************************)
(* float(text): an optional sign, then nan / inf / infinity in any case,   *)
(* or digits with at most one point and at least one digit.  Exponents,    *)
(* underscores and surrounding blanks are outside the model's alphabet.    *)
(* The result is [ok, c]; ok = FALSE is the ValueError.                    *)
(***************************************************************************)
ParseFloat(s) ==
  LET signed == s # <<>> /\ s[1] \in {"-", "+"}
      neg    == s # <<>> /\ s[1] = "-"
      body   == IF signed THEN Tail(s) ELSE s
      low    == Lower(body)
      dot    == Index(body, ".")
      ip     == IF dot = 0 THEN body ELSE SubSeq(body, 1, dot - 1)
      fp     == IF dot = 0 THEN <<>> ELSE SubSeq(body, dot + 1, Len(body))
      mag    == DigitsVal(ip \o fp)
  IN  IF low = <<"n", "a", "n">>
        THEN [ok |-> TRUE, c |-> NaN]
      ELSE IF low \in {<<"i", "n", "f">>, <<"i", "n", "f", "i", "n", "i", "t", "y">>}
        THEN [ok |-> TRUE, c |-> [num |-> IF neg THEN -1 ELSE 1, den |-> 0]]
      ELSE IF AllDigits(ip) /\ AllDigits(fp) /\ Len(ip) + Len(fp) > 0
        THEN [ok |-> TRUE,
              c  |-> Float(IF neg THEN -mag ELSE mag, Pow10(Len(fp)))]
      ELSE [ok |-> FALSE, c |-> NaN]

Zero == Float(0, 1)

One == Float(1, 1)

\* re.match(r'^\d{4}-\d{2}-\d{2}', text)
MatchDate(s) ==
  /\ Len(s) >= 10
  /\ \A i \in {1, 2, 3, 4, 6, 7, 9, 10} : s[i] \in Digits
  /\ s[5] = "-"
  /\ s[8] = "-"

(***************************************************************************)
(* graph_validate.py                                                       *)
(***************************************************************************)
REQUIRED_FIELDS ==
  {"archived_date", "id", "type", "stance", "timestamp",
   "certainty", "perspective", "domain", "ref1", "ref2",
   "content", "relation", "weight", "schema", "semantic_text"}

T_fact == <<"f", "a", "c", "t">>

T_opinion == <<"o", "p", "i", "n", "i", "o", "n">>

T_aspiration == <<"a", "s", "p", "i", "r", "a", "t", "i", "o", "n">>

T_observation == <<"o", "b", "s", "e", "r", "v", "a", "t", "i", "o", "n">>

T_link == <<"l", "i", "n", "k">>

T_question == <<"q", "u", "e", "s", "t", "i", "o", "n">>

T_protocol == <<"p", "r", "o", "t", "o", "c", "o", "l">>

T_item == <<"i", "t", "e", "m">>

T_ACTIVE == <<"A", "C", "T", "I", "V", "E">>

VALID_STANCES ==
  {T_fact, T_opinion, T_aspiration, T_observation, T_link, T_question, T_protocol}

VALID_TYPES == {T_item, T_link}

VARIABLES
  v_pc,        \* "start", "scan" (inside `for row in reader`), "done" (returned)
  file_state,  \* what the file turned out to be: "unknown", "missing", "no_header", "header"
  fieldnames,  \* reader.fieldnames, as a set of column names
  rows,        \* the data rows the reader has yielded so far, oldest first
  row_num,
  seen_ids,
  errors,
  v_result     \* the returned pair [valid, errors]

v_vars == <<v_pc, file_state, fieldnames, rows, row_num, seen_ids, errors, v_result>>

VARIABLES
  s_pc,        \* "load_graph", "load_embeddings", "branch", "score", "done", "raised"
  graph_rows,  \* the rows of the graph file read so far
  entries,
  sem_state,   \* the sidecar: "unknown", "missing", "present"
  sem_rows,    \* the rows of the sidecar read so far
  embeddings,
  branch,      \* "none", "fallback", "semantic"
  query,
  top_k,
  query_emb,
  scores,
  pos,         \* position of `for entry_id, emb in embeddings.items()`
  results      \* the returned list

s_vars ==
  <<s_pc, graph_rows, entries, sem_state, sem_rows, embeddings, branch, query, top_k,
    query_emb, scores, pos, results>>

vars == <<v_vars, s_vars>>

\* row.get(field, default) under the header hdr
Get(hdr, row, field, default) == IF field \in hdr THEN row[field] ELSE default

\* variant: the check guarded by a non-empty id
CheckId_SkipsEmpty(n, entry_id, seen) ==
  IF Truthy(entry_id) /\ entry_id \in seen
  THEN <<[kind |-> "duplicate_id", row |-> n, id |-> entry_id]>>
  ELSE <<>>

CheckId(n, entry_id, seen) ==
  IF entry_id \in seen
  THEN <<[kind |-> "duplicate_id", row |-> n, id |-> entry_id]>>
  ELSE <<>>

\* variant: the `stance and` guard dropped
CheckStance_NoEmptyGuard(n, stance) ==
  IF stance \notin VALID_STANCES
  THEN <<[kind |-> "invalid_stance", row |-> n, stance |-> stance]>>
  ELSE <<>>

CheckStance(n, stance) ==
  IF Truthy(stance) /\ stance \notin VALID_STANCES
  THEN <<[kind |-> "invalid_stance", row |-> n, stance |-> stance]>>
  ELSE <<>>

CheckType(n, entry_type) ==
  IF Truthy(entry_type) /\ entry_type \notin VALID_TYPES
  THEN <<[kind |-> "invalid_type", row |-> n, type |-> entry_type]>>
  ELSE <<>>

\* variant: the interval taken as open
CheckCertainty_Exclusive(n, certainty) ==
  IF Truthy(certainty)
  THEN LET p == ParseFloat(certainty)
       IN  IF p.ok
           THEN IF ~(FloatLT(Zero, p.c) /\ FloatLT(p.c, One))
                THEN <<[kind |-> "certainty_out_of_range", row |-> n, c |-> p.c]>>
                ELSE <<>>
           ELSE <<[kind |-> "invalid_certainty", row |-> n, certainty |-> certainty]>>
  ELSE <<>>

CheckCertainty(n, certainty) ==
  IF Truthy(certainty)
  THEN LET p == ParseFloat(certainty)
       IN  IF p.ok
           THEN IF ~(FloatLE(Zero, p.c) /\ FloatLE(p.c, One))
                THEN <<[kind |-> "certainty_out_of_range", row |-> n, c |-> p.c]>>
                ELSE <<>>
           ELSE <<[kind |-> "invalid_certainty", row |-> n, certainty |-> certainty]>>
  ELSE <<>>

CheckArchived(n, archived) ==
  IF Truthy(archived) /\ archived # T_ACTIVE /\ ~MatchDate(archived)
  THEN <<[kind |-> "invalid_archived_date", row |-> n, archived |-> archived]>>
  ELSE <<>>

\* variant: the second test written as `elif`
CheckLinks_Elif(n, entry_type, ref1, ref2) ==
  IF entry_type = T_link
  THEN IF ~Truthy(ref1) THEN <<[kind |-> "link_missing_ref1", row |-> n]>>
       ELSE IF ~Truthy(ref2) THEN <<[kind |-> "link_missing_ref2", row |-> n]>>
       ELSE <<>>
  ELSE <<>>

CheckLinks(n, entry_type, ref1, ref2) ==
  IF entry_type = T_link
  THEN (IF ~Truthy(ref1) THEN <<[kind |-> "link_missing_ref1", row |-> n]>> ELSE <<>>)
       \o (IF ~Truthy(ref2) THEN <<[kind |-> "link_missing_ref2", row |-> n]>> ELSE <<>>)
  ELSE <<>>

\* variant: the type check placed before the stance check
RowErrors_TypeBeforeStance(hdr, row, n, seen) ==
  CheckId(n, Get(hdr, row, "id", <<>>), seen)
    \o CheckType(n, Get(hdr, row, "type", <<>>))
    \o CheckStance(n, Get(hdr, row, "stance", <<>>))
    \o CheckCertainty(n, Get(hdr, row, "certainty", <<>>))
    \o CheckArchived(n, Get(hdr, row, "archived_date", <<>>))
    \o CheckLinks(n, Get(hdr, row, "type", <<>>),
                  Get(hdr, row, "ref1", None), Get(hdr, row, "ref2", None))

\* the errors one pass of the loop body appends, in the order it appends them
RowErrors(hdr, row, n, seen) ==
  CheckId(n, Get(hdr, row, "id", <<>>), seen)
    \o CheckStance(n, Get(hdr, row, "stance", <<>>))
    \o CheckType(n, Get(hdr, row, "type", <<>>))
    \o CheckCertainty(n, Get(hdr, row, "certainty", <<>>))
    \o CheckArchived(n, Get(hdr, row, "archived_date", <<>>))
    \o CheckLinks(n, Get(hdr, row, "type", <<>>),
                  Get(hdr, row, "ref1", None), Get(hdr, row, "ref2", None))

HeaderErrors(hdr) ==
  LET missing == REQUIRED_FIELDS \ hdr
  IN  IF missing # {} THEN <<[kind |-> "missing_fields", missing |-> missing]>> ELSE <<>>

(***************************************************************************)
(* The files explored: headers and data rows.                              *)
(***************************************************************************)
Headers ==
  {REQUIRED_FIELDS,
   REQUIRED_FIELDS \ {"timestamp"},
   REQUIRED_FIELDS \ {"id", "ref1"}}

T_date == <<"2", "0", "2", "4", "-", "0", "1", "-", "1", "5">>

T_baddate == <<"2", "0", "2", "4", "-", "1", "-", "1", "5">>

T_guess == <<"g", "u", "e", "s", "s">>

T_node == <<"n", "o", "d", "e">>

BaseRow ==
  [id |-> <<"a">>, stance |-> T_fact, type |-> T_item, certainty |-> <<"1", ".", "0">>,
   archived_date |-> T_ACTIVE, ref1 |-> <<>>, ref2 |-> <<>>]

\* a row with every cell empty, its trailing cells missing
BlankRow ==
  [id |-> <<>>, stance |-> <<>>, type |-> <<>>, certainty |-> <<>>,
   archived_date |-> <<>>, ref1 |-> None, ref2 |-> None]

IdRows ==
  {[BaseRow EXCEPT !.id = i] : i \in {<<"a">>, <<"b">>, None}}
    \cup {[BaseRow EXCEPT !.id = <<>>, !.archived_date = T_date], BlankRow}

Certainties ==
  {<<"0", ".", "0">>, <<"1", ".", "1">>, <<"-", "0", ".", "1">>,
   <<"a", "b", "c">>, <<"n", "a", "n">>}

CertaintyRows == {[BaseRow EXCEPT !.certainty = c] : c \in Certainties}

EnumRows ==
  {[BaseRow EXCEPT !.stance = T_guess],
   [BaseRow EXCEPT !.archived_date = T_baddate]}

LinkRows ==
  {[BaseRow EXCEPT !.type = T_link, !.stance = T_link, !.ref1 = <<"b">>, !.ref2 = <<"a">>],
   [BaseRow EXCEPT !.type = T_link, !.ref1 = <<>>, !.ref2 = <<"a">>],
   [BaseRow EXCEPT !.type = T_link, !.ref1 = <<"b">>, !.ref2 = None]}

\* rows breaking several checks at once
MixedRows ==
  {[id |-> <<"a">>, stance |-> T_guess, type |-> T_node, certainty |-> <<"1", ".", "1">>,
    archived_date |-> T_baddate, ref1 |-> <<>>, ref2 |-> None],
   [id |-> <<"b">>, stance |-> T_item, type |-> T_link, certainty |-> <<"a", "b", "c">>,
    archived_date |-> <<"x">>, ref1 |-> <<>>, ref2 |-> None]}

RowUniverse == IdRows \cup CertaintyRows \cup EnumRows \cup LinkRows \cup MixedRows

(***************************************************************************)
(* validate_graph, one action per return and one per pass of the row loop. *)
(***************************************************************************)
\* `if not path.exists(): return False, [...]`
ValidateNotFound ==
  /\ v_pc = "start"
  /\ file_state' = "missing"
  /\ v_result' = [valid |-> FALSE, errors |-> <<[kind |-> "file_not_found"]>>]
  /\ v_pc' = "done"
  /\ UNCHANGED <<fieldnames, rows, row_num, seen_ids, errors>>
  /\ UNCHANGED s_vars

\* variant: the missing header recorded without returning
ValidateNoHeader_NotFatal ==
  /\ v_pc = "start"
  /\ file_state' = "no_header"
  /\ errors' = <<[kind |-> "no_header"]>>
  /\ seen_ids' = {}
  /\ row_num' = 1
  /\ v_pc' = "scan"
  /\ UNCHANGED <<fieldnames, rows, v_result>>
  /\ UNCHANGED s_vars

\* `if reader.fieldnames is None: return False, [...]`
ValidateNoHeader ==
  /\ v_pc = "start"
  /\ file_state' = "no_header"
  /\ v_result' = [valid |-> FALSE, errors |-> <<[kind |-> "no_header"]>>]
  /\ v_pc' = "done"
  /\ UNCHANGED <<fieldnames, rows, row_num, seen_ids, errors>>
  /\ UNCHANGED s_vars

\* the header check and the initialisation before the loop
ValidateHeader ==
  /\ v_pc = "start"
  /\ \E hdr \in Headers :
       /\ fieldnames' = hdr
       /\ errors' = errors \o HeaderErrors(hdr)
  /\ file_state' = "header"
  /\ seen_ids' = {}
  /\ row_num' = 1
  /\ v_pc' = "scan"
  /\ UNCHANGED <<rows, v_result>>
  /\ UNCHANGED s_vars

\* one pass of `for row in reader`
ValidateRow ==
  /\ v_pc = "scan"
  /\ Len(rows) < MaxRows
  /\ \E row \in RowUniverse :
       /\ rows' = Append(rows, row)
       /\ row_num' = row_num + 1
       /\ errors' = errors \o RowErrors(fieldnames, row, row_num + 1, seen_ids)
       /\ seen_ids' = seen_ids \cup {Get(fieldnames, row, "id", <<>>)}
  /\ UNCHANGED <<v_pc, file_state, fieldnames, v_result>>
  /\ UNCHANGED s_vars

\* the reader is exhausted: `return len(errors) == 0, errors`
ValidateReturn ==
  /\ v_pc = "scan"
  /\ v_result' = [valid |-> Len(errors) = 0, errors |-> errors]
  /\ v_pc' = "done"
  /\ UNCHANGED <<file_state, fieldnames, rows, row_num, seen_ids, errors>>
  /\ UNCHANGED s_vars

ValidateInit ==
  /\ v_pc = "start"
  /\ file_state = "unknown"
  /\ fieldnames = {}
  /\ rows = <<>>
  /\ row_num = 0
  /\ seen_ids = {}
  /\ errors = <<>>
  /\ v_result = [valid |-> FALSE, errors |-> <<>>]

ValidateNext ==
  \/ ValidateNotFound
  \/ ValidateNoHeader
  \/ ValidateHeader
  \/ ValidateRow
  \/ ValidateReturn

(***************************************************************************)
(* graph_search.py                                                         *)
(*                                                                         *)
(* A Python dict is a sequence of [key, val] pairs in insertion order.     *)
(* The graph file and the sidecar are taken to have the columns the code   *)
(* indexes (id, archived_date, content, embedding); a cell is None when    *)
(* the row is shorter than the header.                                     *)
(***************************************************************************)
DictHas(d, k) == \E i \in 1..Len(d) : d[i].key = k

DictGet(d, k) == d[CHOOSE i \in 1..Len(d) : d[i].key = k].val

\* d[k] = v: an existing key keeps its position
DictSet(d, k, v) ==
  IF DictHas(d, k)
  THEN [i \in 1..Len(d) |-> IF d[i].key = k THEN [key |-> k, val |-> v] ELSE d[i]]
  ELSE Append(d, [key |-> k, val |-> v])

\* seq[:k]
PySlice(seq, k) ==
  LET n    == Len(seq)
      stop == IF k >= 0 THEN (IF k < n THEN k ELSE n)
              ELSE (IF n + k > 0 THEN n + k ELSE 0)
  IN  SubSeq(seq, 1, stop)

(***************************************************************************)
(* json.loads(blob) on the blobs of the model: `[]`, or `[` integers       *)
(* separated by commas `]`; any other text of the model's alphabet         *)
(* ("[", "]", ",", "-", digits) that starts with "[" is a JSONDecodeError. *)
(* The result is [ok, val].                                                *)
(***************************************************************************)
IsJsonInt(t) ==
  LET body == IF t # <<>> /\ t[1] = "-" THEN Tail(t) ELSE t
  IN  /\ body # <<>>
      /\ AllDigits(body)
      /\ (Len(body) > 1 => body[1] # "0")

JsonInt(t) == IF t[1] = "-" THEN -DigitsVal(Tail(t)) ELSE DigitsVal(t)

\* the pieces of t between commas
RECURSIVE SplitCommas(_)
SplitCommas(t) ==
  LET c == Index(t, ",")
  IN  IF c = 0 THEN <<t>>
      ELSE <<SubSeq(t, 1, c - 1)>> \o SplitCommas(SubSeq(t, c + 1, Len(t)))

JsonLoads(blob) ==
  IF Len(blob) >= 2 /\ blob[1] = "[" /\ blob[Len(blob)] = "]"
  THEN LET inner  == SubSeq(blob, 2, Len(blob) - 1)
           pieces == SplitCommas(inner)
       IN  IF inner = <<>> THEN [ok |-> TRUE, val |-> <<>>]
           ELSE IF \A i \in 1..Len(pieces) : IsJsonInt(pieces[i])
             THEN [ok |-> TRUE, val |-> [i \in 1..Len(pieces) |-> JsonInt(pieces[i])]]
           ELSE [ok |-> FALSE, val |-> <<>>]
  ELSE [ok |-> FALSE, val |-> <<>>]

RECURSIVE Dot(_, _)
Dot(a, b) == IF a = <<>> THEN 0 ELSE a[1] * b[1] + Dot(Tail(a), Tail(b))

\* np.linalg.norm, exact on the vectors of the model (their norms are integers)
Norm(a) == CHOOSE r \in 0..Dot(a, a) : r * r = Dot(a, a)

\* np.dot raises ValueError on vectors of different lengths
DotRaises(a, b) == Len(a) # Len(b)

\* 0/0 in numpy arithmetic is nan (with a RuntimeWarning), not an exception
cosine_similarity(a, b) ==
  IF Norm(a) * Norm(b) = 0 THEN NaN ELSE Float(Dot(a, b), Norm(a) * Norm(b))

\* insert x behind every element that does not compare less than it
RECURSIVE InsertDesc(_, _)
InsertDesc(sorted, x) ==
  IF sorted = <<>> THEN <<x>>
  ELSE IF FloatLT(sorted[1].sim, x.sim) THEN <<x>> \o sorted
  ELSE <<sorted[1]>> \o InsertDesc(Tail(sorted), x)

RECURSIVE StableSortDesc(_)
StableSortDesc(s) ==
  IF s = <<>> THEN <<>>
  ELSE InsertDesc(StableSortDesc(SubSeq(s, 1, Len(s) - 1)), s[Len(s)])

Rearrangements(s) ==
  {[i \in 1..Len(s) |-> s[p[i]]] :
     p \in {f \in [1..Len(s) -> 1..Len(s)] : \A i, j \in 1..Len(s) : f[i] = f[j] => i = j}}

(***************************************************************************)
(* scores.sort(key=lambda x: x[1], reverse=True): the stable descending    *)
(* sort.  With a nan among the keys the comparisons are not an order and   *)
(* Python promises no particular arrangement: any one may result.          *)
(***************************************************************************)
SortOutcomes(s) ==
  IF \E i \in 1..Len(s) : IsNaN(s[i].sim)
  THEN Rearrangements(s)
  ELSE {StableSortDesc(s)}

\* variant: the keyword test without lower()
KeywordMatches_CaseSensitive(ents, q) ==
  LET F[i \in 0..Len(ents)] ==
        IF i = 0 THEN <<>>
        ELSE IF Contains(ents[i].val.content, q)
          THEN Append(F[i - 1], [id |-> ents[i].key, sim |-> One, entry |-> ents[i].val])
        ELSE F[i - 1]
  IN  IF \E i \in 1..Len(ents) : ents[i].val.content = None
      THEN [ok |-> FALSE, results |-> <<>>]
      ELSE [ok |-> TRUE, results |-> F[Len(ents)]]

\* the keyword loop: [ok, results]; ok = FALSE when None.lower() raises
KeywordMatches(ents, q) ==
  LET F[i \in 0..Len(ents)] ==
        IF i = 0 THEN <<>>
        ELSE IF Contains(Lower(ents[i].val.content), Lower(q))
          THEN Append(F[i - 1], [id |-> ents[i].key, sim |-> One, entry |-> ents[i].val])
        ELSE F[i - 1]
  IN  IF \E i \in 1..Len(ents) : ents[i].val.content = None
      THEN [ok |-> FALSE, results |-> <<>>]
      ELSE [ok |-> TRUE, results |-> F[Len(ents)]]

(***************************************************************************)
(* The inputs explored.                                                    *)
(***************************************************************************)
GraphRows ==
  {[id |-> i, archived_date |-> T_ACTIVE, content |-> c] :
     i \in {<<"a">>, <<"b">>}, c \in {<<"a", "B">>, <<"b">>}}
    \cup {[id |-> <<"a">>, archived_date |-> T_date, content |-> <<"a", "B">>],
          [id |-> <<"b">>, archived_date |-> T_ACTIVE, content |-> None]}

SemRows ==
  {[id |-> <<"a">>, archived_date |-> T_ACTIVE, embedding |-> <<"[", "1", ",", "0", "]">>],
   [id |-> <<"b">>, archived_date |-> T_ACTIVE, embedding |-> <<"[", "0", ",", "1", "]">>],
   [id |-> <<"a">>, archived_date |-> T_ACTIVE, embedding |-> <<"[", "3", ",", "4", "]">>],
   [id |-> <<"b">>, archived_date |-> T_ACTIVE, embedding |-> <<"[", "0", ",", "0", "]">>],
   [id |-> <<"a">>, archived_date |-> T_ACTIVE, embedding |-> <<"[", "1", ",">>],
   [id |-> <<"b">>, archived_date |-> T_ACTIVE, embedding |-> <<>>],
   [id |-> <<"b">>, archived_date |-> T_ACTIVE, embedding |-> <<"[", "1", "]">>],
   [id |-> <<"a">>, archived_date |-> T_date, embedding |-> <<"[", "1", ",", "0", "]">>]}

Queries == {<<>>, <<"A", "b">>, <<"b">>}

\* what the embedding model may return for the query
QueryVectors == {<<1, 0>>, <<4, 3>>, <<0, 0>>}

TopKs == 0..MaxTopK

\* variant: load_graph keeping archived rows too
SearchLoadGraphRow_NoFilter ==
  /\ s_pc = "load_graph"
  /\ Len(graph_rows) < MaxGraphRows
  /\ \E row \in GraphRows :
       /\ graph_rows' = Append(graph_rows, row)
       /\ entries' = DictSet(entries, row.id, row)
  /\ UNCHANGED <<s_pc, sem_state, sem_rows, embeddings, branch, query, top_k, query_emb,
                 scores, pos, results>>
  /\ UNCHANGED v_vars

\* load_graph: one pass of its row loop
SearchLoadGraphRow ==
  /\ s_pc = "load_graph"
  /\ Len(graph_rows) < MaxGraphRows
  /\ \E row \in GraphRows :
       /\ graph_rows' = Append(graph_rows, row)
       /\ entries' = IF row.archived_date = T_ACTIVE
                     THEN DictSet(entries, row.id, row)
                     ELSE entries
  /\ UNCHANGED <<s_pc, sem_state, sem_rows, embeddings, branch, query, top_k, query_emb,
                 scores, pos, results>>
  /\ UNCHANGED v_vars

\* load_graph returns
SearchGraphLoaded ==
  /\ s_pc = "load_graph"
  /\ s_pc' = "load_embeddings"
  /\ UNCHANGED <<graph_rows, entries, sem_state, sem_rows, embeddings, branch, query,
                 top_k, query_emb, scores, pos, results>>
  /\ UNCHANGED v_vars

\* load_embeddings: `if not path.exists(): return embeddings`
SearchSidecarMissing ==
  /\ s_pc = "load_embeddings"
  /\ sem_state = "unknown"
  /\ sem_state' = "missing"
  /\ s_pc' = "branch"
  /\ UNCHANGED <<graph_rows, entries, sem_rows, embeddings, branch, query, top_k,
                 query_emb, scores, pos, results>>
  /\ UNCHANGED v_vars

\* load_embeddings: one pass of its row loop
SearchLoadEmbeddingRow ==
  /\ s_pc = "load_embeddings"
  /\ Len(sem_rows) < MaxSemRows
  /\ \E row \in SemRows :
       /\ sem_rows' = Append(sem_rows, row)
       /\ embeddings' =
            IF row.archived_date = T_ACTIVE /\ Truthy(row.embedding)
               /\ JsonLoads(row.embedding).ok
            THEN DictSet(embeddings, row.id, JsonLoads(row.embedding).val)
            ELSE embeddings
  /\ sem_state' = "present"
  /\ UNCHANGED <<s_pc, graph_rows, entries, branch, query, top_k, query_emb, scores,
                 pos, results>>
  /\ UNCHANGED v_vars

\* load_embeddings returns after the last row of an existing sidecar
SearchEmbeddingsLoaded ==
  /\ s_pc = "load_embeddings"
  /\ sem_state' = "present"
  /\ s_pc' = "branch"
  /\ UNCHANGED <<graph_rows, entries, sem_rows, embeddings, branch, query, top_k,
                 query_emb, scores, pos, results>>
  /\ UNCHANGED v_vars

\* `if not embeddings:` the keyword fallback, up to its return
SearchFallback ==
  /\ s_pc = "branch"
  /\ embeddings = <<>>
  /\ \E q \in Queries, k \in TopKs :
       /\ query' = q
       /\ top_k' = k
       /\ results' = PySlice(KeywordMatches(entries, q).results, k)
       /\ s_pc' = IF KeywordMatches(entries, q).ok THEN "done" ELSE "raised"
  /\ branch' = "fallback"
  /\ UNCHANGED <<graph_rows, entries, sem_state, sem_rows, embeddings, query_emb,
                 scores, pos>>
  /\ UNCHANGED v_vars

\* the semantic branch: the query embedding comes back from the model
SearchEmbedQuery ==
  /\ s_pc = "branch"
  /\ embeddings # <<>>
  /\ \E qv \in QueryVectors : query_emb' = qv
  /\ branch' = "semantic"
  /\ scores' = <<>>
  /\ pos' = 1
  /\ s_pc' = "score"
  /\ UNCHANGED <<graph_rows, entries, sem_state, sem_rows, embeddings, query, top_k,
                 results>>
  /\ UNCHANGED v_vars

\* one pass of the scoring loop
SearchScore ==
  /\ s_pc = "score"
  /\ pos <= Len(embeddings)
  /\ LET entry_id == embeddings[pos].key
         emb      == embeddings[pos].val
     IN  IF DictHas(entries, entry_id)
         THEN IF DotRaises(query_emb, emb)
              THEN /\ s_pc' = "raised"
                   /\ UNCHANGED <<scores, pos>>
              ELSE /\ scores' = Append(scores,
                                       [id    |-> entry_id,
                                        sim   |-> cosine_similarity(query_emb, emb),
                                        entry |-> DictGet(entries, entry_id)])
                   /\ pos' = pos + 1
                   /\ s_pc' = s_pc
         ELSE /\ pos' = pos + 1
              /\ UNCHANGED <<s_pc, scores>>
  /\ UNCHANGED <<graph_rows, entries, sem_state, sem_rows, embeddings, branch, query,
                 top_k, query_emb, results>>
  /\ UNCHANGED v_vars

\* the sort and `return scores[:top_k]`
SearchSortReturn ==
  /\ s_pc = "score"
  /\ pos > Len(embeddings)
  /\ \E sorted \in SortOutcomes(scores), k \in TopKs :
       /\ scores' = sorted
       /\ top_k' = k
       /\ results' = PySlice(sorted, k)
  /\ s_pc' = "done"
  /\ UNCHANGED <<graph_rows, entries, sem_state, sem_rows, embeddings, branch, query,
                 query_emb, pos>>
  /\ UNCHANGED v_vars

SearchInit ==
  /\ s_pc = "load_graph"
  /\ graph_rows = <<>>
  /\ entries = <<>>
  /\ sem_state = "unknown"
  /\ sem_rows = <<>>
  /\ embeddings = <<>>
  /\ branch = "none"
  /\ query = <<>>
  /\ top_k = 0
  /\ query_emb = <<>>
  /\ scores = <<>>
  /\ pos = 0
  /\ results = <<>>

SearchNext ==
  \/ SearchLoadGraphRow
  \/ SearchGraphLoaded
  \/ SearchSidecarMissing
  \/ SearchLoadEmbeddingRow
  \/ SearchEmbeddingsLoaded
  \/ SearchFallback
  \/ SearchEmbedQuery
  \/ SearchScore
  \/ SearchSortReturn

Init == ValidateInit /\ SearchInit

SpecSearch == Init /\ [][SearchNext]_vars

SpecValidate == Init /\ [][ValidateNext]_vars

(***************************************************************************)
(* Properties of validate_graph.                                           *)
(*                                                                         *)
(* Data row k (k = 1 is the first one) is rows[k]; the code numbers it     *)
(* k + 1.  Cell(k, f, d) is what the code reads for column f of that row.  *)
(***************************************************************************)
Cell(k, field, default) == Get(fieldnames, rows[k], field, default)

FileKinds == {"file_not_found", "no_header", "missing_fields"}

\* how many errors of the given kinds the list holds for data row k
Count(errs, k, kinds) ==
  Cardinality({i \in 1..Len(errs) :
                 /\ errs[i].kind \in kinds
                 /\ errs[i].kind \notin FileKinds
                 /\ errs[i].row = k + 1})

Blank(v) == v = <<>> \/ v = None

InUnitInterval(c) == c.den > 0 /\ 0 <= c.num /\ c.num <= c.den

DuplicateViolation(k) ==
  \E j \in 1..(k - 1) : Cell(j, "id", <<>>) = Cell(k, "id", <<>>)

StanceViolation(k) ==
  ~Blank(Cell(k, "stance", <<>>)) /\ Cell(k, "stance", <<>>) \notin VALID_STANCES

TypeViolation(k) ==
  ~Blank(Cell(k, "type", <<>>)) /\ Cell(k, "type", <<>>) \notin {T_item, T_link}

CertaintyUnparsable(k) ==
  ~Blank(Cell(k, "certainty", <<>>)) /\ ~ParseFloat(Cell(k, "certainty", <<>>)).ok

CertaintyOutside(k) ==
  /\ ~Blank(Cell(k, "certainty", <<>>))
  /\ ParseFloat(Cell(k, "certainty", <<>>)).ok
  /\ ~InUnitInterval(ParseFloat(Cell(k, "certainty", <<>>)).c)

DateViolation(k) ==
  LET d == Cell(k, "archived_date", <<>>)
  IN  /\ ~Blank(d)
      /\ d # T_ACTIVE
      /\ ~(/\ Len(d) >= 10
           /\ AllDigits(SubSeq(d, 1, 4)) /\ d[5] = "-"
           /\ AllDigits(SubSeq(d, 6, 7)) /\ d[8] = "-"
           /\ AllDigits(SubSeq(d, 9, 10)))

Ref1Violation(k) == Cell(k, "type", <<>>) = T_link /\ Blank(Cell(k, "ref1", None))

Ref2Violation(k) == Cell(k, "type", <<>>) = T_link /\ Blank(Cell(k, "ref2", None))

RowViolates(k) ==
  \/ DuplicateViolation(k)
  \/ StanceViolation(k)
  \/ TypeViolation(k)
  \/ CertaintyUnparsable(k)
  \/ CertaintyOutside(k)
  \/ DateViolation(k)
  \/ Ref1Violation(k)
  \/ Ref2Violation(k)

C7_FatalShortCircuit ==
  /\ file_state = "missing" =>
       /\ v_pc = "done"
       /\ v_result = [valid |-> FALSE, errors |-> <<[kind |-> "file_not_found"]>>]
       /\ rows = <<>> /\ errors = <<>> /\ row_num = 0
  /\ file_state = "no_header" =>
       /\ v_pc = "done"
       /\ v_result = [valid |-> FALSE, errors |-> <<[kind |-> "no_header"]>>]
       /\ rows = <<>> /\ errors = <<>> /\ row_num = 0
  /\ (file_state = "header" /\ ~(REQUIRED_FIELDS \subseteq fieldnames)) =>
       /\ Cardinality({i \in 1..Len(errors) : errors[i].kind = "missing_fields"}) = 1
       /\ errors[1] = [kind |-> "missing_fields", missing |-> REQUIRED_FIELDS \ fieldnames]
       /\ row_num = Len(rows) + 1
       /\ \A k \in 1..Len(rows) :
            RowViolates(k) => \E i \in 2..Len(errors) : errors[i].row = k + 1
       /\ v_pc = "done" => v_result = [valid |-> FALSE, errors |-> errors]

C7_Witness ==
  /\ v_pc = "done"
  /\ file_state = "header"
  /\ fieldnames = REQUIRED_FIELDS \ {"id", "ref1"}
  /\ Len(rows) = 2
  /\ Len(v_result.errors) >= 3
  /\ v_result.errors[1].kind = "missing_fields"

Rank(kind) ==
  CASE kind = "duplicate_id" -> 1
    [] kind = "invalid_stance" -> 2
    [] kind = "invalid_type" -> 3
    [] kind \in {"certainty_out_of_range", "invalid_certainty"} -> 4
    [] kind = "invalid_archived_date" -> 5
    [] kind = "link_missing_ref1" -> 6
    [] kind = "link_missing_ref2" -> 7

Violation(k, rank) ==
  CASE rank = 1 -> DuplicateViolation(k)
    [] rank = 2 -> StanceViolation(k)
    [] rank = 3 -> TypeViolation(k)
    [] rank = 4 -> CertaintyUnparsable(k) \/ CertaintyOutside(k)
    [] rank = 5 -> DateViolation(k)
    [] rank = 6 -> Ref1Violation(k)
    [] rank = 7 -> Ref2Violation(k)

C9_Certainty ==
  \A k \in 1..Len(rows) :
    LET text    == Cell(k, "certainty", <<>>)
        range   == Count(errors, k, {"certainty_out_of_range"})
        invalid == Count(errors, k, {"invalid_certainty"})
    IN  /\ range + invalid <= 1
        /\ range = (IF CertaintyOutside(k) THEN 1 ELSE 0)
        /\ invalid = (IF CertaintyUnparsable(k) THEN 1 ELSE 0)
        /\ text \in {<<>>, <<"0", ".", "0">>, <<"1", ".", "0">>} => range + invalid = 0
        /\ text \in {<<"1", ".", "1">>, <<"-", "0", ".", "1">>} => range = 1
        /\ text = <<"a", "b", "c">> => invalid = 1

C9_Witness ==
  /\ v_pc = "done"
  /\ Len(rows) = 3
  /\ Cell(1, "certainty", <<>>) = <<"0", ".", "0">>
  /\ Cell(2, "certainty", <<>>) = <<"-", "0", ".", "1">>
  /\ Cell(3, "certainty", <<>>) = <<"a", "b", "c">>
  /\ Count(v_result.errors, 1, {"certainty_out_of_range", "invalid_certainty"}) = 0
  /\ Count(v_result.errors, 2, {"certainty_out_of_range"}) = 1
  /\ Count(v_result.errors, 3, {"invalid_certainty"}) = 1

\* C10: a row of type link gets exactly one ref1-missing error iff its ref1
\* is empty or absent and, independently, exactly one ref2-missing error iff
\* its ref2 is empty or absent; a row of any other type gets neither.
C10_LinkRefs ==
  \A k \in 1..Len(rows) :
    LET isLink == Cell(k, "type", <<>>) = T_link
    IN  /\ Count(errors, k, {"link_missing_ref1"}) =
             (IF isLink /\ Blank(Cell(k, "ref1", None)) THEN 1 ELSE 0)
        /\ Count(errors, k, {"link_missing_ref2"}) =
             (IF isLink /\ Blank(Cell(k, "ref2", None)) THEN 1 ELSE 0)

C10_Witness ==
  /\ v_pc = "done"
  /\ Len(rows) = 3
  /\ fieldnames = REQUIRED_FIELDS
  /\ rows[1].type = T_link /\ rows[1].ref1 = <<>> /\ rows[1].ref2 = None
  /\ rows[2].type = T_link /\ rows[2].ref1 = <<"b">> /\ rows[2].ref2 = None
  /\ rows[3].type = T_node /\ rows[3].ref1 = <<>> /\ rows[3].ref2 = None
  /\ Count(v_result.errors, 1, {"link_missing_ref1", "link_missing_ref2"}) = 2
  /\ Count(v_result.errors, 2, {"link_missing_ref1"}) = 0
  /\ Count(v_result.errors, 2, {"link_missing_ref2"}) = 1
  /\ Count(v_result.errors, 3, {"link_missing_ref1", "link_missing_ref2"}) = 0

(***************************************************************************)
(* Properties of search.                                                   *)
(***************************************************************************)
Keys(d) == {d[i].key : i \in 1..Len(d)}

\* a sidecar row that load_embeddings is meant to keep
Usable(row) ==
  /\ row.archived_date = T_ACTIVE
  /\ ~Blank(row.embedding)
  /\ JsonLoads(row.embedding).ok

\* q occurs in content when letter case is ignored
MatchesQuery(content, q) ==
  \E off \in 0..(Len(content) - Len(q)) :
    \A i \in 1..Len(q) : LowerChar(content[off + i]) = LowerChar(q[i])

Min(a, b) == IF a < b THEN a ELSE b

IsSortedDesc(res) ==
  \A i, j \in 1..Len(res) : i < j => FloatLE(res[j].sim, res[i].sim)

\* C3: no archived record is ever returned by search, in either branch,
\* even when the sidecar keeps an embedding for the id of an archived row:
\* every returned record is an ACTIVE row of the graph file under its id.
C3_NoArchivedResults ==
  s_pc = "done" =>
    \A i \in 1..Len(results) :
      /\ results[i].entry.archived_date = T_ACTIVE
      /\ results[i].entry.id = results[i].id
      /\ \E j \in 1..Len(graph_rows) : graph_rows[j] = results[i].entry

C3_Witness ==
  /\ s_pc = "done"
  /\ branch = "semantic"
  /\ results # <<>>
  /\ \E j \in 1..Len(graph_rows) :
       /\ graph_rows[j].archived_date # T_ACTIVE
       /\ DictHas(embeddings, graph_rows[j].id)
       /\ \A i \in 1..Len(results) : results[i].id # graph_rows[j].id

C5_SemanticRanking ==
  (s_pc = "done" /\ branch = "semantic") =>
    /\ {scores[i].id : i \in 1..Len(scores)} = Keys(embeddings) \cap Keys(entries)
    /\ Len(results) = Min(top_k, Cardinality(Keys(embeddings) \cap Keys(entries)))
    /\ IsSortedDesc(results)
    /\ \A i \in 1..Len(results), j \in 1..Len(scores) :
         (\A h \in 1..Len(results) : results[h].id # scores[j].id) =>
           FloatLE(scores[j].sim, results[i].sim)

\* C6: a zero query vector or a zero stored vector gives that id a definite
\* number as its similarity, one that compares with the other scores, so
\* the returned list is still in descending order of score.
C6_ZeroVectorSentinel ==
  branch = "semantic" =>
    /\ \A i \in 1..Len(scores) :
         /\ scores[i].sim.den > 0
         /\ FloatLE(scores[i].sim, scores[i].sim)
    /\ s_pc = "done" => IsSortedDesc(results)

=============================================================================
